---- MODULE Spec2Model ----
(***************************************************************************)
(* Booking conflict detection and lifecycle of django-booking-backend:     *)
(* bookings/models.py, bookings/serializers.py and bookings/views.py.      *)
(* Calendar dates are small naturals and times of day are small naturals   *)
(* counting fractions of a minute; a request handler is one atomic action  *)
(* under Spec and a validate step followed by a save step under SpecConc.  *)
(***************************************************************************)
EXTENDS Integers, Sequences, FiniteSets, TLC

\* ------------------------------------------------------------- bounds
MaxBookings == 2
MaxTime == 2
MaxDate == 1
MaxProbeTime == 4
TicksPerMinute == 2

\* ------------------------------------------------------------- domains
Users == {"alice", "admin"}
Resources == {"r1", "r2"}
ResourceIds == Resources \cup {"r9"}
Times == 0..MaxTime
Dates == 0..MaxDate
BookingIds == 1..MaxBookings
STATUS_CHOICES == {"PENDING", "CONFIRMED", "CANCELLED", "COMPLETED"}
ActiveStatuses == {"PENDING", "CONFIRMED"}
Omitted == -1
Unparsable == -2
NoPrice == -1
SecondsPerTick == 60 \div TicksPerMinute
OmittedText == "-"
Procs == {"p1", "p2"}

VARIABLES bookings, resources, today, last, procs, probe

vars == <<bookings, resources, today, last, procs, probe>>

is_staff(u) == u = "admin"

\* ------------------------------------------------------------- records
NoSlot == <<Omitted, Omitted>>

\* Hours and amounts are quotients num / den of integers.
Zero == [num |-> 0, den |-> 1]

NoOp ==
  [op |-> "none", actor |-> "admin", id |-> 0, resource |-> "r9",
   booking_date |-> Omitted, start_time |-> Omitted, end_time |-> Omitted,
   notes |-> OmittedText, status |-> OmittedText, admin_notes |-> OmittedText,
   ok |-> TRUE, err |-> {}, conflict |-> NoSlot,
   mail |-> "none", mailTo |-> "admin",
   user |-> OmittedText, is_available |-> FALSE, booked_slots |-> <<>>, rows |-> {},
   duration_hours |-> Zero, total_price |-> Zero]

NoRow ==
  [user |-> "admin", resource |-> "r9", booking_date |-> Omitted, start_time |-> Omitted,
   end_time |-> Omitted, status |-> OmittedText, notes |-> OmittedText,
   admin_notes |-> OmittedText]

IdleProc ==
  [pc |-> "idle", op |-> "none", actor |-> "admin", id |-> 0, resource |-> "r9",
   booking_date |-> Omitted, start_time |-> Omitted, end_time |-> Omitted,
   row |-> NoRow, ok |-> FALSE, err |-> {}]

\* A create request body without undeclared fields.
NoExtra == [status |-> OmittedText, user |-> OmittedText]

NoProbe == [fn |-> "none", s |-> 0, e |-> 0, result |-> FALSE]

\* Mutation of NewBooking: the status defaults to 'CONFIRMED'.
NewBookingConfirmed(u, r, d, s, e, n) ==
  [user |-> u, resource |-> r, booking_date |-> d, start_time |-> s,
   end_time |-> e, status |-> "CONFIRMED", notes |-> n, admin_notes |-> ""]

\* The row a create inserts: the validated fields, save(user=request.user)
\* and the defaults of Booking.status and Booking.admin_notes.
NewBooking(u, r, d, s, e, n) ==
  [user |-> u, resource |-> r, booking_date |-> d, start_time |-> s,
   end_time |-> e, status |-> "PENDING", notes |-> n, admin_notes |-> ""]

\* ------------------------------------------------------------- models.py
\* Booking.clean: the errors full_clean() collects before every save().
clean(b) ==
  (IF b.end_time <= b.start_time THEN {"InvalidInterval"} ELSE {})
  \cup (IF b.booking_date < today THEN {"PastDate"} ELSE {})
  \cup (IF ~resources[b.resource].is_available THEN {"ResourceUnavailable"} ELSE {})

\* ------------------------------------------------------------- serializers.py
\* Mutation of CreateOverlap: only a start inside the stored interval counts.
CreateOverlapStartInside(s, e, b) == b.start_time <= s /\ s < b.end_time

\* The overlap test of BookingCreateSerializer.validate.
CreateOverlap(s, e, b) == s < b.end_time /\ e > b.start_time

\* Mutation of CreateConflicts: status__in lists 'PENDING' alone.
CreateConflictsPendingOnly(r, d, s, e) ==
  {i \in DOMAIN bookings :
     /\ bookings[i].resource = r
     /\ bookings[i].booking_date = d
     /\ bookings[i].status = "PENDING"
     /\ s < bookings[i].end_time /\ e > bookings[i].start_time}

\* Mutation of CreateConflicts: the status__in filter is missing.
CreateConflictsAnyStatus(r, d, s, e) ==
  {i \in DOMAIN bookings :
     /\ bookings[i].resource = r
     /\ bookings[i].booking_date = d
     /\ s < bookings[i].end_time /\ e > bookings[i].start_time}

\* Mutation of CreateConflicts: the resource filter is missing.
CreateConflictsAnyResource(r, d, s, e) ==
  {i \in DOMAIN bookings :
     /\ bookings[i].booking_date = d
     /\ bookings[i].status \in ActiveStatuses
     /\ s < bookings[i].end_time /\ e > bookings[i].start_time}

\* The queryset scanned by BookingCreateSerializer.validate, kept to the
\* rows the loop raises on.
CreateConflicts(r, d, s, e) ==
  {i \in DOMAIN bookings :
     /\ bookings[i].resource = r
     /\ bookings[i].booking_date = d
     /\ bookings[i].status \in ActiveStatuses
     /\ CreateOverlap(s, e, bookings[i])}

\* Meta.ordering = ['-booking_date', '-start_time']: the loop raises on a
\* conflicting row of greatest start_time (rows of equal start_time come in
\* an order the database chooses).
FirstInOrder(S) ==
  {i \in S : \A j \in S : bookings[j].start_time <= bookings[i].start_time}

SlotOf(i) == <<bookings[i].start_time, bookings[i].end_time>>

\* BookingCreateSerializer field validation: the resource primary key must
\* exist and validate_booking_date rejects a past date; field errors are
\* collected together and validate() runs only when there is none.
CreateFieldErrors(r, d) ==
  (IF r \notin Resources THEN {"NotFound"} ELSE {})
  \cup (IF d < today THEN {"PastDate"} ELSE {})

\* Mutation of CreateValidate: the availability check comes before the
\* interval check.
CreateValidateAvailabilityFirst(r, d, s, e) ==
  IF ~resources[r].is_available THEN {"ResourceUnavailable"}
  ELSE IF e <= s THEN {"InvalidInterval"}
  ELSE IF CreateConflicts(r, d, s, e) # {} THEN {"SlotConflict"}
  ELSE {}

\* Mutation of CreateValidate: the availability check is missing.
CreateValidateNoAvailability(r, d, s, e) ==
  IF e <= s THEN {"InvalidInterval"}
  ELSE IF CreateConflicts(r, d, s, e) # {} THEN {"SlotConflict"}
  ELSE {}

\* BookingCreateSerializer.validate: the first check that raises.
CreateValidate(r, d, s, e) ==
  IF e <= s THEN {"InvalidInterval"}
  ELSE IF ~resources[r].is_available THEN {"ResourceUnavailable"}
  ELSE IF CreateConflicts(r, d, s, e) # {} THEN {"SlotConflict"}
  ELSE {}

\* serializer.is_valid() of a create request.
CreateErrors(r, d, s, e) ==
  IF CreateFieldErrors(r, d) # {} THEN CreateFieldErrors(r, d)
  ELSE CreateValidate(r, d, s, e)

\* ------------------------------------------------------------- serializers.py (update)
\* The overlap test of BookingUpdateSerializer.validate.
UpdateOverlap(s, e, b) == s < b.end_time /\ e > b.start_time

\* Mutation of UpdateConflicts: the exclude(pk=instance.pk) is missing.
UpdateConflictsIncludingSelf(id, r, d, s, e) ==
  {i \in DOMAIN bookings :
     /\ bookings[i].resource = r
     /\ bookings[i].booking_date = d
     /\ bookings[i].status \in ActiveStatuses
     /\ s < bookings[i].end_time /\ e > bookings[i].start_time}

\* Mutation of UpdateConflicts: the scan looks at the date the instance had
\* before the update.
UpdateConflictsStoredDate(id, r, d, s, e) ==
  {i \in DOMAIN bookings \ {id} :
     /\ bookings[i].resource = r
     /\ bookings[i].booking_date = bookings[id].booking_date
     /\ bookings[i].status \in ActiveStatuses
     /\ s < bookings[i].end_time /\ e > bookings[i].start_time}

\* The queryset scanned by BookingUpdateSerializer.validate: the instance's
\* resource, the resulting date, active statuses, the instance excluded.
UpdateConflicts(id, r, d, s, e) ==
  {i \in DOMAIN bookings \ {id} :
     /\ bookings[i].resource = r
     /\ bookings[i].booking_date = d
     /\ bookings[i].status \in ActiveStatuses
     /\ UpdateOverlap(s, e, bookings[i])}

\* data.get(field, instance.field)
Merged(supplied, stored) == IF supplied = Omitted THEN stored ELSE supplied

MergedText(supplied, stored) == IF supplied = OmittedText THEN stored ELSE supplied

\* Mutation of UpdateValidate: the conflict scan is missing.
UpdateValidateNoScan(id, r, d, s, e) == IF e <= s THEN {"InvalidInterval"} ELSE {}

\* BookingUpdateSerializer.validate on the merged values.
UpdateValidate(id, r, d, s, e) ==
  IF e <= s THEN {"InvalidInterval"}
  ELSE IF UpdateConflicts(id, r, d, s, e) # {} THEN {"SlotConflict"}
  ELSE {}

\* Mutation of Updated: a rescheduled booking goes back to PENDING.
UpdatedResetsStatus(row, d, s, e, n) ==
  [row EXCEPT !.booking_date = Merged(d, row.booking_date),
              !.start_time = Merged(s, row.start_time),
              !.end_time = Merged(e, row.end_time),
              !.notes = MergedText(n, row.notes),
              !.status = "PENDING"]

\* Mutation of Updated: the booking is moved to another resource.
UpdatedMovesResource(row, d, s, e, n) ==
  [row EXCEPT !.booking_date = Merged(d, row.booking_date),
              !.start_time = Merged(s, row.start_time),
              !.end_time = Merged(e, row.end_time),
              !.notes = MergedText(n, row.notes),
              !.resource = "r2"]

\* ModelSerializer.update: the supplied fields are set on the instance.
Updated(row, d, s, e, n) ==
  [row EXCEPT !.booking_date = Merged(d, row.booking_date),
              !.start_time = Merged(s, row.start_time),
              !.end_time = Merged(e, row.end_time),
              !.notes = MergedText(n, row.notes)]

\* BookingStatusSerializer (partial): status and admin_notes when supplied.
StatusUpdated(row, st, an) ==
  [row EXCEPT !.status = MergedText(st, row.status),
              !.admin_notes = MergedText(an, row.admin_notes)]

\* Mutation of ModelOverlap: the comparisons admit equality.
ModelOverlapInclusive(self, b) ==
  self.start_time <= b.end_time /\ self.end_time >= b.start_time

\* The overlap test of Booking.is_conflicting.
ModelOverlap(self, b) == self.start_time < b.end_time /\ self.end_time > b.start_time

\* Mutation of get_duration_hours: the seconds are divided by 60.
get_duration_minutes(b) ==
  [num |-> (b.end_time - b.start_time) * SecondsPerTick, den |-> 60]

\* Booking.get_duration_hours: total_seconds() / 3600. The quotient is kept
\* exact; the code returns the double nearest to it.
get_duration_hours(b) ==
  [num |-> (b.end_time - b.start_time) * SecondsPerTick, den |-> 3600]

\* Mutation of calculate_total_price: a resource without a price is charged
\* the duration at one cent an hour.
calculate_total_price_default(b) ==
  IF resources[b.resource].price_per_hour # NoPrice /\ resources[b.resource].price_per_hour # 0
  THEN [num |-> resources[b.resource].price_per_hour * get_duration_hours(b).num,
        den |-> get_duration_hours(b).den]
  ELSE get_duration_hours(b)

\* Booking.calculate_total_price, in cents: price_per_hour times the
\* duration when price_per_hour is neither None nor zero, else 0.
calculate_total_price(b) ==
  IF resources[b.resource].price_per_hour # NoPrice /\ resources[b.resource].price_per_hour # 0
  THEN [num |-> resources[b.resource].price_per_hour * get_duration_hours(b).num,
        den |-> get_duration_hours(b).den]
  ELSE Zero

\* Booking.is_conflicting for the row `self` stored under primary key pk.
is_conflicting(pk, self) ==
  \E i \in DOMAIN bookings \ {pk} :
     /\ bookings[i].resource = self.resource
     /\ bookings[i].booking_date = self.booking_date
     /\ bookings[i].status \in ActiveStatuses
     /\ ModelOverlap(self, bookings[i])

\* ------------------------------------------------------------- views.py
\* Mutation of Visible: get_queryset returns every booking to every user.
VisibleToAll(actor, id) == id \in DOMAIN bookings

\* BookingViewSet.get_queryset with get_object: staff see every booking,
\* other users only their own.
Visible(actor, id) ==
  /\ id \in DOMAIN bookings
  /\ (is_staff(actor) \/ bookings[id].user = actor)

Result(op, actor, id, r, d, s, e, n, st, an, ok, err, conflict, mail, mailTo) ==
  [op |-> op, actor |-> actor, id |-> id, resource |-> r,
   booking_date |-> d, start_time |-> s, end_time |-> e, notes |-> n,
   status |-> st, admin_notes |-> an,
   ok |-> ok, err |-> err, conflict |-> conflict,
   mail |-> mail, mailTo |-> mailTo,
   user |-> OmittedText, is_available |-> FALSE, booked_slots |-> <<>>, rows |-> {},
   duration_hours |-> Zero, total_price |-> Zero]

Failure(op, actor, id, r, d, s, e, n, st, an, err, conflict) ==
  Result(op, actor, id, r, d, s, e, n, st, an, FALSE, err, conflict, "none", actor)

\* Mutation of Carried: the message shows the interval of any stored row.
CarriedOfAnyRow(S) == {SlotOf(i) : i \in DOMAIN bookings}

\* The interval a SlotConflict message carries: that of the first
\* conflicting row in the queryset's order.
Carried(S) == {SlotOf(i) : i \in FirstInOrder(S)}

\* The server takes a request when no response is pending.
Ready == last.op = "none"

\* send_mail(..., fail_silently=False) is called in the handler itself: it
\* returns, raises, or has not come back from the mail server.
MailOutcomes == {"sent", "failed", "pending"}

\* Mutation of Reported: an exception of the mail call fails the request.
ReportedUnlessMailFails(ok, m) == ok /\ m # "failed"

\* try: send_..._email(...) except Exception: print(...): the outcome of the
\* mail call does not change what the handler reports.
Reported(ok, m) == ok

\* POST /list/: BookingViewSet.create with perform_create. `extra` holds the
\* status and user of the request body, which BookingCreateSerializer.Meta.fields
\* does not list.
Create(actor, r, d, s, e, n, extra) ==
  /\ Ready
  /\ Len(bookings) < MaxBookings
  /\ LET err == CreateErrors(r, d, s, e)
         b == NewBooking(actor, r, d, s, e, n) IN
     IF err = {"SlotConflict"}
     THEN /\ \E c \in Carried(CreateConflicts(r, d, s, e)) :
               last' = [Failure("create", actor, 0, r, d, s, e, n, extra.status, OmittedText, err, c)
                          EXCEPT !.user = extra.user]
          /\ UNCHANGED bookings
     ELSE IF err # {}
     THEN /\ last' = [Failure("create", actor, 0, r, d, s, e, n, extra.status, OmittedText, err, NoSlot)
                        EXCEPT !.user = extra.user]
          /\ UNCHANGED bookings
     ELSE IF clean(b) # {}
     THEN /\ last' = [Failure("create", actor, 0, r, d, s, e, n, extra.status, OmittedText,
                               clean(b), NoSlot)
                        EXCEPT !.user = extra.user]
          /\ UNCHANGED bookings
     ELSE /\ bookings' = Append(bookings, b)
          /\ \E m \in MailOutcomes :
               last' = [Result("create", actor, Len(bookings) + 1, r, d, s, e, n,
                               extra.status, OmittedText, Reported(TRUE, m), {}, NoSlot, m, actor)
                          EXCEPT !.user = extra.user]
  /\ UNCHANGED <<resources, today, procs, probe>>

\* Mutation of Update: the merged row is saved without is_valid() and
\* without full_clean().
UpdateUnvalidated(actor, id, d, s, e, n) ==
  /\ Ready
  /\ IF ~Visible(actor, id)
     THEN /\ last' = Failure("update", actor, id, "r9", d, s, e, n, OmittedText, OmittedText,
                             {"NotFound"}, NoSlot)
          /\ UNCHANGED bookings
     ELSE /\ bookings' = [bookings EXCEPT ![id] = Updated(bookings[id], d, s, e, n)]
          /\ last' = Result("update", actor, id, bookings[id].resource, d, s, e, n,
                            OmittedText, OmittedText, TRUE, {}, NoSlot, "none", actor)
  /\ UNCHANGED <<resources, today, procs, probe>>

\* PUT/PATCH /list/{id}/: BookingViewSet.update with BookingUpdateSerializer.
Update(actor, id, d, s, e, n) ==
  /\ Ready
  /\ IF ~Visible(actor, id)
     THEN /\ last' = Failure("update", actor, id, "r9", d, s, e, n, OmittedText, OmittedText,
                             {"NotFound"}, NoSlot)
          /\ UNCHANGED bookings
     ELSE LET row == bookings[id]
              new == Updated(row, d, s, e, n)
              err == UpdateValidate(id, row.resource, new.booking_date, new.start_time, new.end_time) IN
          IF err = {"SlotConflict"}
          THEN /\ \E c \in Carried(UpdateConflicts(id, row.resource, new.booking_date,
                                                   new.start_time, new.end_time)) :
                    last' = Failure("update", actor, id, row.resource, d, s, e, n,
                                    OmittedText, OmittedText, err, c)
               /\ UNCHANGED bookings
          ELSE IF err # {}
          THEN /\ last' = Failure("update", actor, id, row.resource, d, s, e, n,
                                  OmittedText, OmittedText, err, NoSlot)
               /\ UNCHANGED bookings
          ELSE IF clean(new) # {}
          THEN /\ last' = Failure("update", actor, id, row.resource, d, s, e, n,
                                  OmittedText, OmittedText, clean(new), NoSlot)
               /\ UNCHANGED bookings
          ELSE /\ bookings' = [bookings EXCEPT ![id] = new]
               /\ last' = Result("update", actor, id, row.resource, d, s, e, n,
                                 OmittedText, OmittedText, TRUE, {}, NoSlot, "none", actor)
  /\ UNCHANGED <<resources, today, procs, probe>>

\* Mutation of Cancellable: only 'CANCELLED' is refused.
CancellableUnlessCancelled(row) == row.status # "CANCELLED"

\* The guard of cancel: booking.status not in ['CANCELLED', 'COMPLETED'].
Cancellable(row) == row.status \notin {"CANCELLED", "COMPLETED"}

\* Mutation of Cancel: the row is written before the model validation runs,
\* so a cancel that full_clean() refuses has already stored the new status.
CancelSavingFirst(actor, id) ==
  /\ Ready
  /\ IF ~Visible(actor, id)
     THEN /\ last' = Failure("cancel", actor, id, "r9", Omitted, Omitted, Omitted, OmittedText,
                             OmittedText, OmittedText, {"NotFound"}, NoSlot)
          /\ UNCHANGED bookings
     ELSE LET row == bookings[id]
              new == [row EXCEPT !.status = "CANCELLED"] IN
          IF ~Cancellable(row)
          THEN /\ last' = Failure("cancel", actor, id, row.resource, Omitted, Omitted, Omitted,
                                  OmittedText, OmittedText, OmittedText, {"IllegalTransition"}, NoSlot)
               /\ UNCHANGED bookings
          ELSE /\ bookings' = [bookings EXCEPT ![id] = new]
               /\ IF clean(new) # {}
                  THEN last' = Failure("cancel", actor, id, row.resource, Omitted, Omitted,
                                       Omitted, OmittedText, OmittedText, OmittedText,
                                       clean(new), NoSlot)
                  ELSE \E m \in MailOutcomes :
                         last' = Result("cancel", actor, id, row.resource, Omitted, Omitted,
                                        Omitted, OmittedText, OmittedText, OmittedText,
                                        Reported(TRUE, m), {}, NoSlot, m, actor)
  /\ UNCHANGED <<resources, today, procs, probe>>

\* POST /list/{id}/cancel/: BookingViewSet.cancel.
Cancel(actor, id) ==
  /\ Ready
  /\ IF ~Visible(actor, id)
     THEN /\ last' = Failure("cancel", actor, id, "r9", Omitted, Omitted, Omitted, OmittedText,
                             OmittedText, OmittedText, {"NotFound"}, NoSlot)
          /\ UNCHANGED bookings
     ELSE LET row == bookings[id]
              new == [row EXCEPT !.status = "CANCELLED"] IN
          IF ~Cancellable(row)
          THEN /\ last' = Failure("cancel", actor, id, row.resource, Omitted, Omitted, Omitted,
                                  OmittedText, OmittedText, OmittedText, {"IllegalTransition"}, NoSlot)
               /\ UNCHANGED bookings
          ELSE IF clean(new) # {}
          THEN /\ last' = Failure("cancel", actor, id, row.resource, Omitted, Omitted, Omitted,
                                  OmittedText, OmittedText, OmittedText, clean(new), NoSlot)
               /\ UNCHANGED bookings
          ELSE /\ bookings' = [bookings EXCEPT ![id] = new]
               /\ \E m \in MailOutcomes :
                    last' = Result("cancel", actor, id, row.resource, Omitted, Omitted, Omitted,
                                   OmittedText, OmittedText, OmittedText, Reported(TRUE, m), {},
                                   NoSlot, m, actor)
  /\ UNCHANGED <<resources, today, procs, probe>>

\* PATCH /list/{id}/update_status/: BookingViewSet.update_status.
SetStatus(actor, id, st, an) ==
  /\ Ready
  /\ IF ~is_staff(actor)
     THEN /\ last' = Failure("setStatus", actor, id, "r9", Omitted, Omitted, Omitted, OmittedText,
                             st, an, {"Unauthorized"}, NoSlot)
          /\ UNCHANGED bookings
     ELSE IF id \notin DOMAIN bookings
     THEN /\ last' = Failure("setStatus", actor, id, "r9", Omitted, Omitted, Omitted, OmittedText,
                             st, an, {"NotFound"}, NoSlot)
          /\ UNCHANGED bookings
     ELSE LET row == bookings[id]
              new == StatusUpdated(row, st, an) IN
          IF clean(new) # {}
          THEN /\ last' = Failure("setStatus", actor, id, row.resource, Omitted, Omitted, Omitted,
                                  OmittedText, st, an, clean(new), NoSlot)
               /\ UNCHANGED bookings
          ELSE /\ bookings' = [bookings EXCEPT ![id] = new]
               /\ last' = Result("setStatus", actor, id, row.resource, Omitted, Omitted, Omitted,
                                 OmittedText, st, an, TRUE, {}, NoSlot, "none", actor)
  /\ UNCHANGED <<resources, today, procs, probe>>

\* PATCH /resources/{r}/: ResourceViewSet.partial_update of is_available,
\* admin only.
SetAvailable(actor, r, v) ==
  /\ Ready
  /\ IF ~is_staff(actor)
     THEN /\ last' = Failure("resource", actor, 0, r, Omitted, Omitted, Omitted, OmittedText,
                             OmittedText, OmittedText, {"Unauthorized"}, NoSlot)
          /\ UNCHANGED resources
     ELSE /\ resources' = [resources EXCEPT ![r].is_available = v]
          /\ last' = Result("resource", actor, 0, r, Omitted, Omitted, Omitted, OmittedText,
                            OmittedText, OmittedText, TRUE, {}, NoSlot, "none", actor)
  /\ UNCHANGED <<bookings, today, procs, probe>>

\* time.strftime('%H:%M'): the minute a time of day lies in; seconds are dropped.
strftime_HM(t) == t \div TicksPerMinute

\* The queryset of BookingAvailabilityView.get.
BookedRows(r, d) ==
  {i \in DOMAIN bookings :
     /\ bookings[i].resource = r
     /\ bookings[i].booking_date = d
     /\ bookings[i].status \in ActiveStatuses}

\* order_by('start_time'): the rows of S by ascending start_time (rows of
\* equal start_time come in an order the database chooses).
OrderedByStart(S) ==
  {q \in [1..Cardinality(S) -> S] :
     /\ \A i \in DOMAIN q : \A j \in DOMAIN q : i # j => q[i] # q[j]
     /\ \A i \in DOMAIN q : \A j \in DOMAIN q :
          i < j => bookings[q[i]].start_time <= bookings[q[j]].start_time}

\* The booked_slots lists the view can answer with.
booked_slots(r, d) ==
  {[k \in DOMAIN q |-> <<strftime_HM(bookings[q[k]].start_time),
                         strftime_HM(bookings[q[k]].end_time)>>] :
     q \in OrderedByStart(BookedRows(r, d))}

\* GET /list/{id}/: ModelViewSet.retrieve over get_queryset().
Retrieve(actor, id) ==
  /\ Ready
  /\ IF ~Visible(actor, id)
     THEN last' = Failure("retrieve", actor, id, "r9", Omitted, Omitted, Omitted, OmittedText,
                          OmittedText, OmittedText, {"NotFound"}, NoSlot)
     ELSE last' = [Result("retrieve", actor, id, bookings[id].resource, Omitted, Omitted, Omitted,
                          OmittedText, OmittedText, OmittedText, TRUE, {}, NoSlot, "none", actor)
                     EXCEPT !.rows = {id},
                            !.duration_hours = get_duration_hours(bookings[id]),
                            !.total_price = calculate_total_price(bookings[id])]
  /\ UNCHANGED <<bookings, resources, today, procs, probe>>

\* GET /list/: ModelViewSet.list over get_queryset().
List(actor) ==
  /\ Ready
  /\ last' = [Result("list", actor, 0, "r9", Omitted, Omitted, Omitted,
                     OmittedText, OmittedText, OmittedText, TRUE, {}, NoSlot, "none", actor)
                EXCEPT !.rows = {id \in DOMAIN bookings : Visible(actor, id)}]
  /\ UNCHANGED <<bookings, resources, today, procs, probe>>

\* Mutation of QueryAvailability: a query for a known resource switches its
\* is_available flag off.
QueryAvailabilityClosing(actor, r, d) ==
  /\ Ready
  /\ last' = Result("availability", actor, 0, r, d, Omitted, Omitted, OmittedText,
                    OmittedText, OmittedText, TRUE, {}, NoSlot, "none", actor)
  /\ resources' = [x \in Resources |->
                     IF x = r THEN [resources[x] EXCEPT !.is_available = FALSE]
                     ELSE resources[x]]
  /\ UNCHANGED <<bookings, today, procs, probe>>

\* GET /availability/?resource_id=r&date=d: BookingAvailabilityView.get.
QueryAvailability(actor, r, d) ==
  /\ Ready
  /\ IF r = OmittedText \/ d = Omitted
     THEN last' = Failure("availability", actor, 0, r, d, Omitted, Omitted, OmittedText,
                          OmittedText, OmittedText, {"BadRequest"}, NoSlot)
     ELSE IF r \notin Resources
     THEN last' = Failure("availability", actor, 0, r, d, Omitted, Omitted, OmittedText,
                          OmittedText, OmittedText, {"NotFound"}, NoSlot)
     ELSE IF d = Unparsable
     THEN last' = Failure("availability", actor, 0, r, d, Omitted, Omitted, OmittedText,
                          OmittedText, OmittedText, {"InvalidDate"}, NoSlot)
     ELSE \E q \in booked_slots(r, d) :
            last' = [Result("availability", actor, 0, r, d, Omitted, Omitted, OmittedText,
                            OmittedText, OmittedText, TRUE, {}, NoSlot, "none", actor)
                       EXCEPT !.is_available = resources[r].is_available,
                              !.booked_slots = q]
  /\ UNCHANGED <<bookings, resources, today, procs, probe>>

\* A mail call that had not come back returns or raises.
MailReturns ==
  /\ last.mail = "pending"
  /\ \E m \in {"sent", "failed"} :
       last' = [last EXCEPT !.mail = m, !.ok = Reported(last.ok, m)]
  /\ UNCHANGED <<bookings, resources, today, procs, probe>>

\* PATCH /resources/{r}/: ResourceViewSet.partial_update of price_per_hour
\* (cents, or NoPrice for null), admin only.
SetPrice(actor, r, price) ==
  /\ Ready
  /\ IF ~is_staff(actor)
     THEN /\ last' = Failure("resource", actor, 0, r, Omitted, Omitted, Omitted, OmittedText,
                             OmittedText, OmittedText, {"Unauthorized"}, NoSlot)
          /\ UNCHANGED resources
     ELSE /\ resources' = [resources EXCEPT ![r].price_per_hour = price]
          /\ last' = Result("resource", actor, 0, r, Omitted, Omitted, Omitted, OmittedText,
                            OmittedText, OmittedText, TRUE, {}, NoSlot, "none", actor)
  /\ UNCHANGED <<bookings, today, procs, probe>>

\* The handler returns its Response, which it does once its mail call has
\* come back; the server is ready for the next request.
Respond ==
  /\ ~Ready
  /\ last.mail # "pending"
  /\ last' = NoOp
  /\ UNCHANGED <<bookings, resources, today, procs, probe>>

\* The clock behind timezone.now().date() moves to the next day.
AdvanceDay ==
  /\ Ready
  /\ today < MaxDate
  /\ today' = today + 1
  /\ UNCHANGED <<bookings, resources, last, procs, probe>>

Init ==
  /\ bookings = <<>>
  /\ resources = [r \in Resources |-> [is_available |-> TRUE, price_per_hour |-> NoPrice]]
  /\ today = 0
  /\ last = NoOp
  /\ procs = [p \in Procs |-> IdleProc]
  /\ probe = NoProbe

\* The requests of a world D: its actors, the resource ids they ask for
\* (rids), the resources an admin switches (res), the dates, times, notes and
\* undeclared fields of a create (ds, ts, ns, extras), the fields an update
\* (uds, uts, uns) or a status change (sts, ans) may supply and the dates an
\* availability query names (qds).
Requests(D) ==
  \/ \E actor \in D.actors, r \in D.rids, d \in D.ds, s \in D.ts, e \in D.ts, n \in D.ns,
        extra \in D.extras :
       Create(actor, r, d, s, e, n, extra)
  \/ \E actor \in D.actors, id \in BookingIds, d \in D.uds, s \in D.uts, e \in D.uts, n \in D.uns :
       Update(actor, id, d, s, e, n)
  \/ \E actor \in D.actors, id \in BookingIds : Cancel(actor, id)
  \/ \E actor \in D.actors, id \in BookingIds, st \in D.sts, an \in D.ans :
       SetStatus(actor, id, st, an)
  \/ \E actor \in D.actors, r \in D.res, v \in BOOLEAN : SetAvailable(actor, r, v)
  \/ \E actor \in D.actors, r \in D.rids, d \in D.qds : QueryAvailability(actor, r, d)
  \/ \E actor \in D.actors, id \in BookingIds : Retrieve(actor, id)
  \/ \E actor \in D.actors : List(actor)
  \/ MailReturns
  \/ Respond
  \/ AdvanceDay

\* One staff user booking one resource on any date and interval: conflicts
\* and validation.
CoreWorld ==
  [actors |-> {"admin"}, rids |-> {"r1", "r9"}, res |-> {"r1"},
   ds |-> Dates, ts |-> Times, ns |-> {""}, extras |-> {NoExtra},
   uds |-> Dates \cup {Omitted}, uts |-> Times \cup {Omitted}, uns |-> {OmittedText},
   sts |-> STATUS_CHOICES \cup {OmittedText}, ans |-> {OmittedText},
   qds |-> Dates \cup {Unparsable}]

\* An owner and a staff user booking the first slot of the first day:
\* lifecycle and authorization.
UsersWorld ==
  [actors |-> Users, rids |-> {"r1"}, res |-> {"r1"},
   ds |-> {0}, ts |-> {0, 1}, ns |-> {""},
   extras |-> {NoExtra, [status |-> "CONFIRMED", user |-> "alice"]},
   uds |-> {Omitted, 0}, uts |-> {Omitted, 0}, uns |-> {OmittedText},
   sts |-> STATUS_CHOICES, ans |-> {"a"},
   qds |-> {0, Omitted}]

Next == Requests(CoreWorld)

Spec == Init /\ [][Next]_vars

NextUsers == Requests(UsersWorld)

SpecUsers == Init /\ [][NextUsers]_vars

\* A handler whose calls have all come back returns its response; nothing
\* makes the mail server answer.
SpecNotify == Init /\ [][NextUsers]_vars /\ WF_vars(Respond)

\* ------------------------------------------------------------- without update_status
\* The rows a store can hold on resource r1: any date, interval and status.
StoredRows ==
  {[NewBooking("admin", "r1", d, s, e, "") EXCEPT !.status = st] :
     d \in Dates, s \in Times, e \in Times, st \in STATUS_CHOICES}

\* The active rows of the store bs that share resource and date and overlap.
Clashes(bs) ==
  {<<i, j>> \in (DOMAIN bs) \X (DOMAIN bs) :
     /\ i # j
     /\ bs[i].resource = bs[j].resource
     /\ bs[i].booking_date = bs[j].booking_date
     /\ bs[i].status \in ActiveStatuses /\ bs[j].status \in ActiveStatuses
     /\ bs[i].start_time < bs[j].end_time /\ bs[i].end_time > bs[j].start_time}

\* Any store of valid rows without a double booking, as earlier requests,
\* update_status among them, can have left it.
InitStored ==
  /\ \E n \in 0..MaxBookings : \E bs \in [1..n -> StoredRows] :
       /\ \A i \in 1..n : bs[i].end_time > bs[i].start_time
       /\ Clashes(bs) = {}
       /\ bookings = bs
  /\ resources = [r \in Resources |-> [is_available |-> TRUE, price_per_hour |-> NoPrice]]
  /\ today = 0
  /\ last = NoOp
  /\ procs = [p \in Procs |-> IdleProc]
  /\ probe = NoProbe

\* The requests of CoreWorld other than update_status.
NextStored ==
  \/ \E r \in CoreWorld.rids, d \in Dates, s \in Times, e \in Times :
       Create("admin", r, d, s, e, "", NoExtra)
  \/ \E id \in BookingIds, d \in CoreWorld.uds, s \in CoreWorld.uts, e \in CoreWorld.uts :
       Update("admin", id, d, s, e, OmittedText)
  \/ \E id \in BookingIds : Cancel("admin", id)
  \/ \E v \in BOOLEAN : SetAvailable("admin", "r1", v)
  \/ MailReturns
  \/ Respond
  \/ AdvanceDay

SpecStored == InitStored /\ [][NextStored]_vars

\* ------------------------------------------------------------- concurrent handlers
\* A handler that has answered: only its outcome is kept.
DoneProc(op, ok, err) == [IdleProc EXCEPT !.pc = "done", !.op = op, !.ok = ok, !.err = err]

\* A create handler that has answered, with the slot it asked for.
DoneCreate(ok, err, r, d, s, e) ==
  [DoneProc("create", ok, err) EXCEPT !.resource = r, !.booking_date = d,
                                      !.start_time = s, !.end_time = e]

\* The creates that passed is_valid() and have not saved yet.
PendingCreates == {p \in Procs : procs[p].pc = "validated" /\ procs[p].op = "create"}

\* BookingViewSet.create up to serializer.is_valid(): the conflict scan reads
\* the bookings stored at this moment.
ValidateCreate(p, actor, r, d, s, e) ==
  /\ procs[p].pc = "idle"
  /\ Len(bookings) + Cardinality(PendingCreates) < MaxBookings
  /\ LET err == CreateErrors(r, d, s, e) IN
     procs' = [procs EXCEPT ![p] =
                 IF err # {} THEN DoneCreate(FALSE, err, r, d, s, e)
                 ELSE [IdleProc EXCEPT !.pc = "validated", !.op = "create", !.actor = actor,
                                       !.resource = r, !.booking_date = d,
                                       !.start_time = s, !.end_time = e]]
  /\ UNCHANGED <<bookings, resources, today, last, probe>>

\* perform_create: serializer.save() runs full_clean() and inserts the row;
\* nothing scans for conflicts again.
SaveCreate(p) ==
  /\ procs[p].pc = "validated" /\ procs[p].op = "create"
  /\ LET b == NewBooking(procs[p].actor, procs[p].resource, procs[p].booking_date,
                         procs[p].start_time, procs[p].end_time, "") IN
     IF clean(b) # {}
     THEN /\ procs' = [procs EXCEPT ![p] =
                         DoneCreate(FALSE, clean(b), b.resource, b.booking_date,
                                    b.start_time, b.end_time)]
          /\ UNCHANGED bookings
     ELSE /\ bookings' = Append(bookings, b)
          /\ procs' = [procs EXCEPT ![p] =
                         DoneCreate(TRUE, {}, b.resource, b.booking_date,
                                    b.start_time, b.end_time)]
  /\ UNCHANGED <<resources, today, last, probe>>

\* An update or cancel handler that has answered, with the booking it was for.
DoneOn(op, ok, err, id) == [DoneProc(op, ok, err) EXCEPT !.id = id]

\* BookingViewSet.update up to serializer.is_valid(): get_object() reads the
\* row and the conflict scan reads the bookings stored at this moment.
ValidateUpdate(p, actor, id, d, s, e) ==
  /\ procs[p].pc = "idle"
  /\ IF ~Visible(actor, id)
     THEN procs' = [procs EXCEPT ![p] = DoneOn("update", FALSE, {"NotFound"}, id)]
     ELSE LET row == bookings[id]
              new == Updated(row, d, s, e, OmittedText)
              err == UpdateValidate(id, row.resource, new.booking_date,
                                    new.start_time, new.end_time) IN
          procs' = [procs EXCEPT ![p] =
                      IF err # {} THEN DoneOn("update", FALSE, err, id)
                      ELSE [IdleProc EXCEPT !.pc = "validated", !.op = "update",
                                            !.actor = actor, !.id = id, !.row = new]]
  /\ UNCHANGED <<bookings, resources, today, last, probe>>

\* perform_update: serializer.save() runs full_clean() on the instance read
\* earlier and writes the whole row back.
SaveUpdate(p) ==
  /\ procs[p].pc = "validated" /\ procs[p].op = "update"
  /\ IF clean(procs[p].row) # {}
     THEN /\ procs' = [procs EXCEPT ![p] =
                         DoneOn("update", FALSE, clean(procs[p].row), procs[p].id)]
          /\ UNCHANGED bookings
     ELSE /\ bookings' = [bookings EXCEPT ![procs[p].id] = procs[p].row]
          /\ procs' = [procs EXCEPT ![p] = DoneOn("update", TRUE, {}, procs[p].id)]
  /\ UNCHANGED <<resources, today, last, probe>>

\* BookingViewSet.cancel up to booking.status = 'CANCELLED': get_object()
\* reads the row and the status guard is applied to it.
ReadCancel(p, actor, id) ==
  /\ procs[p].pc = "idle"
  /\ procs' = [procs EXCEPT ![p] =
                 IF ~Visible(actor, id) THEN DoneOn("cancel", FALSE, {"NotFound"}, id)
                 ELSE IF ~Cancellable(bookings[id])
                 THEN DoneOn("cancel", FALSE, {"IllegalTransition"}, id)
                 ELSE [IdleProc EXCEPT !.pc = "validated", !.op = "cancel", !.actor = actor,
                                       !.id = id,
                                       !.row = [bookings[id] EXCEPT !.status = "CANCELLED"]]]
  /\ UNCHANGED <<bookings, resources, today, last, probe>>

\* booking.save() of cancel: full_clean() on the instance read earlier, then
\* the whole row is written back.
SaveCancel(p) ==
  /\ procs[p].pc = "validated" /\ procs[p].op = "cancel"
  /\ IF clean(procs[p].row) # {}
     THEN /\ procs' = [procs EXCEPT ![p] =
                         DoneOn("cancel", FALSE, clean(procs[p].row), procs[p].id)]
          /\ UNCHANGED bookings
     ELSE /\ bookings' = [bookings EXCEPT ![procs[p].id] = procs[p].row]
          /\ procs' = [procs EXCEPT ![p] = DoneOn("cancel", TRUE, {}, procs[p].id)]
  /\ UNCHANGED <<resources, today, last, probe>>

\* The handler returns its Response.
Finish(p) ==
  /\ procs[p].pc = "done"
  /\ procs' = [procs EXCEPT ![p] = IdleProc]
  /\ UNCHANGED <<bookings, resources, today, last, probe>>

NextConc ==
  \/ \E p \in Procs, d \in Dates, s \in Times, e \in Times :
       ValidateCreate(p, "admin", "r1", d, s, e)
  \/ \E p \in Procs : SaveCreate(p)
  \/ \E p \in Procs, id \in BookingIds, d \in Dates \cup {Omitted},
        s \in Times \cup {Omitted}, e \in Times \cup {Omitted} :
       ValidateUpdate(p, "admin", id, d, s, e)
  \/ \E p \in Procs : SaveUpdate(p)
  \/ \E p \in Procs, id \in BookingIds : ReadCancel(p, "admin", id)
  \/ \E p \in Procs : SaveCancel(p)
  \/ \E p \in Procs : Finish(p)

SpecConc == Init /\ [][NextConc]_vars

\* Concurrent creates on any resource and date, all for the same time of day.
NextKeys ==
  \/ \E p \in Procs, r \in Resources, d \in Dates, s \in {0, 1}, e \in {0, 1} :
       ValidateCreate(p, "admin", r, d, s, e)
  \/ \E p \in Procs : SaveCreate(p)
  \/ \E p \in Procs : Finish(p)

SpecKeys == Init /\ [][NextKeys]_vars

\* ------------------------------------------------------------- duration and price
\* Times of day of the priced booking: midnight, the two ticks after it,
\* 09:00 and 10:30.
PriceTimes == {0, 1, 2, 9 * 60 * TicksPerMinute, (10 * 60 + 30) * TicksPerMinute}

\* Prices per hour in cents: none, 0.00, 0.50 and 20.00.
Prices == {NoPrice, 0, 50, 2000}

\* One booking with any interval on a resource with any price.
InitPrice ==
  /\ \E s \in PriceTimes, e \in PriceTimes, price \in Prices :
       /\ s < e
       /\ bookings = <<NewBooking("admin", "r1", 0, s, e, "")>>
       /\ resources = [r \in Resources |-> [is_available |-> TRUE, price_per_hour |-> price]]
  /\ today = 0
  /\ last = NoOp
  /\ procs = [p \in Procs |-> IdleProc]
  /\ probe = NoProbe

NextPrice ==
  \/ Retrieve("admin", 1)
  \/ \E s \in PriceTimes \cup {Omitted}, e \in PriceTimes \cup {Omitted} :
       Update("admin", 1, Omitted, s, e, OmittedText)
  \/ \E price \in Prices : SetPrice("admin", "r1", price)
  \/ Respond

SpecPrice == InitPrice /\ [][NextPrice]_vars

\* ------------------------------------------------------------- overlap probes
ProbeTimes == 0..MaxProbeTime

\* A stored active booking with any interval, and a second, cancelled row
\* that stands for the instance an update or is_conflicting() is called on.
InitOverlap ==
  /\ \E s \in ProbeTimes, e \in ProbeTimes :
       /\ s < e
       /\ bookings = <<NewBooking("admin", "r1", 0, s, e, ""),
                       [NewBooking("admin", "r1", 0, 0, 1, "") EXCEPT !.status = "CANCELLED"]>>
  /\ resources = [r \in Resources |-> [is_available |-> TRUE, price_per_hour |-> NoPrice]]
  /\ today = 0
  /\ last = NoOp
  /\ procs = [p \in Procs |-> IdleProc]
  /\ probe = NoProbe

\* The conflict scan of create, asked about the interval (s, e).
ProbeCreate(s, e) ==
  /\ s < e
  /\ probe' = [fn |-> "create", s |-> s, e |-> e,
               result |-> CreateConflicts("r1", 0, s, e) # {}]
  /\ UNCHANGED <<bookings, resources, today, last, procs>>

\* The conflict scan of an update of row 2 to the interval (s, e).
ProbeUpdate(s, e) ==
  /\ s < e
  /\ probe' = [fn |-> "update", s |-> s, e |-> e,
               result |-> UpdateConflicts(2, "r1", 0, s, e) # {}]
  /\ UNCHANGED <<bookings, resources, today, last, procs>>

\* Booking.is_conflicting() on row 2 holding the interval (s, e).
ProbeModel(s, e) ==
  /\ s < e
  /\ probe' = [fn |-> "is_conflicting", s |-> s, e |-> e,
               result |-> is_conflicting(2, [bookings[2] EXCEPT !.start_time = s,
                                                                !.end_time = e])]
  /\ UNCHANGED <<bookings, resources, today, last, procs>>

NextOverlap ==
  \/ \E s \in ProbeTimes, e \in ProbeTimes : ProbeCreate(s, e)
  \/ \E s \in ProbeTimes, e \in ProbeTimes : ProbeUpdate(s, e)
  \/ \E s \in ProbeTimes, e \in ProbeTimes : ProbeModel(s, e)

SpecOverlap == InitOverlap /\ [][NextOverlap]_vars

\* ============================================================= claims
\* The reference overlap of two rows: a.start < b.end AND a.end > b.start.
RefOverlaps(a, b) == a.start_time < b.end_time /\ a.end_time > b.start_time

IsActive(b) == b.status = "PENDING" \/ b.status = "CONFIRMED"

IsTerminal(b) == b.status = "CANCELLED" \/ b.status = "COMPLETED"

\* No two distinct active bookings of the store bs on one resource and date overlap.
NoDoubleBookingIn(bs) ==
  \A i \in DOMAIN bs : \A j \in DOMAIN bs :
    (/\ i # j
     /\ bs[i].resource = bs[j].resource
     /\ bs[i].booking_date = bs[j].booking_date
     /\ IsActive(bs[i]) /\ IsActive(bs[j]))
    => ~RefOverlaps(bs[i], bs[j])

\* The request of the step just taken, as a row.
Requested == [start_time |-> last'.start_time, end_time |-> last'.end_time]

\* An active booking of the store, before the step, on resource r and date d,
\* other than booking `but`, overlapping the interval iv.
Blocked(r, d, iv, but) ==
  \E i \in DOMAIN bookings \ {but} :
    /\ bookings[i].resource = r
    /\ bookings[i].booking_date = d
    /\ IsActive(bookings[i])
    /\ RefOverlaps(iv, bookings[i])

\* The step just taken handled a request of kind op.
Handled(op) == last.op = "none" /\ last'.op = op

\* The actor of a step may see booking id: the owner or a staff user.
MaySee(actor, id) ==
  /\ id \in DOMAIN bookings
  /\ (actor = "admin" \/ bookings[id].user = actor)

\* ------------------------------------------------------------- C1
\* C1 as stated: in every reachable state no two distinct Pending/Confirmed
\* bookings on the same resource and date overlap.
C1_NoDoubleBooking == NoDoubleBookingIn(bookings)

\* C1 amended: every create, update and cancel preserves the absence of double
\* bookings; only setStatus can break it.
C1_PreservedExceptSetStatus ==
  [][(NoDoubleBookingIn(bookings) /\ last'.op # "setStatus")
       => NoDoubleBookingIn(bookings')]_vars

\* A create succeeded beside another active booking on its resource and date.
C1_Witness ==
  /\ last.op = "create" /\ last.ok
  /\ \E i \in DOMAIN bookings :
       /\ i # last.id
       /\ bookings[i].resource = last.resource
       /\ bookings[i].booking_date = last.booking_date
       /\ IsActive(bookings[i])

\* ------------------------------------------------------------- C2
\* C2: under any interleaving of the validate and save steps of concurrent
\* create and update requests, no two distinct Pending/Confirmed bookings on
\* the same resource and date overlap.
C2_Serializable == NoDoubleBookingIn(bookings)

\* ------------------------------------------------------------- C4
ProbeIntervals ==
  {iv \in [start_time : ProbeTimes, end_time : ProbeTimes] : iv.start_time < iv.end_time}

\* C4: each of the three conflict scans decides overlap as
\* a.start < b.end AND a.end > b.start; the decision is symmetric and is
\* false for adjacent intervals.
C4_OverlapIsReference ==
  /\ probe.fn # "none" =>
       LET a == [start_time |-> probe.s, end_time |-> probe.e]
           b == bookings[1] IN
       /\ probe.result = (a.start_time < b.end_time /\ a.end_time > b.start_time)
       /\ (a.end_time = b.start_time \/ b.end_time = a.start_time) => ~probe.result
  /\ \A a \in ProbeIntervals : \A b \in ProbeIntervals :
       /\ CreateOverlap(a.start_time, a.end_time, b) = CreateOverlap(b.start_time, b.end_time, a)
       /\ UpdateOverlap(a.start_time, a.end_time, b) = UpdateOverlap(b.start_time, b.end_time, a)
       /\ ModelOverlap(a, b) = ModelOverlap(b, a)

\* is_conflicting() was asked about an interval that ends where the stored
\* booking starts.
C4_Witness ==
  /\ probe.fn = "is_conflicting"
  /\ probe.e = bookings[1].start_time
  /\ ~probe.result

\* ------------------------------------------------------------- C3
\* C3 as stated: a create whose interval overlaps an active booking on its
\* resource and date fails with SlotConflict and stores nothing; an otherwise
\* valid create that overlaps none succeeds.
C3_Stated ==
  [][Handled("create") =>
       /\ (/\ last'.start_time < last'.end_time
           /\ Blocked(last'.resource, last'.booking_date, Requested, 0))
          => (~last'.ok /\ last'.err = {"SlotConflict"} /\ bookings' = bookings)
       /\ (/\ last'.start_time < last'.end_time
           /\ last'.booking_date >= today
           /\ last'.resource \in Resources
           /\ resources[last'.resource].is_available
           /\ ~Blocked(last'.resource, last'.booking_date, Requested, 0))
          => (last'.ok /\ Len(bookings') = Len(bookings) + 1)]_vars

\* C3 amended: the overlapping create fails with SlotConflict when it is
\* otherwise valid; it stores nothing in any case.
C3_OverlapRejected ==
  [][Handled("create") =>
       /\ (/\ last'.start_time < last'.end_time
           /\ Blocked(last'.resource, last'.booking_date, Requested, 0))
          => /\ ~last'.ok /\ bookings' = bookings
             /\ (/\ last'.booking_date >= today
                 /\ resources[last'.resource].is_available)
                => last'.err = {"SlotConflict"}
       /\ (/\ last'.start_time < last'.end_time
           /\ last'.booking_date >= today
           /\ last'.resource \in Resources
           /\ resources[last'.resource].is_available
           /\ ~Blocked(last'.resource, last'.booking_date, Requested, 0))
          => (last'.ok /\ Len(bookings') = Len(bookings) + 1)]_vars

\* A create was refused with SlotConflict after an earlier create succeeded.
C3_Witness ==
  /\ last.op = "create" /\ ~last.ok /\ last.err = {"SlotConflict"}
  /\ Len(bookings) >= 1

\* ------------------------------------------------------------- C5
\* C5: cancel by the owner or a staff user on a Pending/Confirmed booking
\* succeeds and leaves the booking Cancelled, whatever today and is_available are.
C5_CancelSucceeds ==
  [][(/\ Handled("cancel")
      /\ MaySee(last'.actor, last'.id)
      /\ IsActive(bookings[last'.id]))
     => (last'.ok /\ bookings'[last'.id].status = "CANCELLED")]_vars

\* ------------------------------------------------------------- C6
\* C6: cancel on a Cancelled or Completed booking fails, with
\* IllegalTransition for an actor who may see the booking, changes no field
\* of any booking and sends no cancellation notice.
C6_TerminalCancelRejected ==
  [][(/\ Handled("cancel")
      /\ last'.id \in DOMAIN bookings
      /\ IsTerminal(bookings[last'.id]))
     => /\ ~last'.ok
        /\ bookings' = bookings
        /\ last'.mail = "none"
        /\ MaySee(last'.actor, last'.id) => last'.err = {"IllegalTransition"}]_vars

\* The owner's cancel of an already terminal booking was refused.
C6_Witness ==
  /\ last.op = "cancel" /\ last.err = {"IllegalTransition"}
  /\ last.actor = "alice"
  /\ bookings[last.id].status = "COMPLETED"

\* ------------------------------------------------------------- C7
\* C7 as stated: no step changes the status of a Cancelled or Completed booking.
C7_Terminal ==
  [][\A id \in DOMAIN bookings :
       IsTerminal(bookings[id]) => bookings'[id].status = bookings[id].status]_vars

\* C7 amended: no update and no cancel changes the status of a Cancelled or
\* Completed booking; only setStatus does.
C7_TerminalExceptSetStatus ==
  [][last'.op # "setStatus" =>
       \A id \in DOMAIN bookings :
         IsTerminal(bookings[id]) => bookings'[id].status = bookings[id].status]_vars

\* An update of a Completed booking went through.
C7_Witness ==
  /\ last.op = "update" /\ last.ok
  /\ bookings[last.id].status = "COMPLETED"

\* ------------------------------------------------------------- C8
\* C8: setStatus by a staff user on an existing booking succeeds and stores
\* the requested status and the supplied admin notes.
C8_SetStatusSucceeds ==
  [][(/\ Handled("setStatus")
      /\ last'.actor = "admin"
      /\ last'.id \in DOMAIN bookings
      /\ last'.status \in STATUS_CHOICES)
     => /\ last'.ok
        /\ bookings'[last'.id].status = last'.status
        /\ last'.admin_notes # OmittedText
           => bookings'[last'.id].admin_notes = last'.admin_notes]_vars

\* ------------------------------------------------------------- C9
\* The interval and date an update results in: a field left out keeps its
\* stored value.
Resulting(id) ==
  [booking_date |-> IF last'.booking_date = -1 THEN bookings[id].booking_date
                    ELSE last'.booking_date,
   start_time |-> IF last'.start_time = -1 THEN bookings[id].start_time
                  ELSE last'.start_time,
   end_time |-> IF last'.end_time = -1 THEN bookings[id].end_time
                ELSE last'.end_time]

SameSlot(a, b) ==
  /\ a.booking_date = b.booking_date
  /\ a.start_time = b.start_time
  /\ a.end_time = b.end_time

\* C9 as stated: an update of an active booking that leaves date, start and
\* end as stored never fails with SlotConflict.
C9_Stated ==
  [][(/\ Handled("update")
      /\ MaySee(last'.actor, last'.id)
      /\ IsActive(bookings[last'.id])
      /\ SameSlot(Resulting(last'.id), bookings[last'.id]))
     => "SlotConflict" \notin last'.err]_vars

\* C9 amended: an update fails with SlotConflict only when a booking other
\* than the updated one is active on its resource and resulting date and
\* overlaps the resulting interval.
C9_NoSelfConflict ==
  [][(/\ Handled("update")
      /\ MaySee(last'.actor, last'.id)
      /\ "SlotConflict" \in last'.err)
     => Blocked(bookings[last'.id].resource, Resulting(last'.id).booking_date,
                Resulting(last'.id), last'.id)]_vars

\* An update that keeps the stored interval of an active booking succeeded.
C9_Witness ==
  /\ last.op = "update" /\ last.ok
  /\ IsActive(bookings[last.id])
  /\ last.start_time \in {-1, bookings[last.id].start_time}
  /\ last.end_time \in {-1, bookings[last.id].end_time}
  /\ last.booking_date \in {-1, bookings[last.id].booking_date}
  /\ last.start_time # -1

\* ------------------------------------------------------------- C10
\* The errors of the rules the resulting booking of an update breaks.
Broken(id) ==
  (IF Resulting(id).end_time <= Resulting(id).start_time THEN {"InvalidInterval"} ELSE {})
  \cup (IF Resulting(id).booking_date < today THEN {"PastDate"} ELSE {})
  \cup (IF Blocked(bookings[id].resource, Resulting(id).booking_date, Resulting(id), id)
        THEN {"SlotConflict"} ELSE {})

\* C10: an update whose resulting booking has end <= start, a past date or an
\* overlap with another active booking fails with the error of a rule it
\* breaks (InvalidInterval first) and leaves the store unchanged.
C10_UpdateValidated ==
  [][(/\ Handled("update")
      /\ MaySee(last'.actor, last'.id)
      /\ Broken(last'.id) # {})
     => /\ ~last'.ok
        /\ bookings' = bookings
        /\ last'.err \cap Broken(last'.id) # {}
        /\ "InvalidInterval" \in Broken(last'.id) => last'.err = {"InvalidInterval"}]_vars

\* A partial update that supplied only an end time was refused as InvalidInterval.
C10_Witness ==
  /\ last.op = "update" /\ last.err = {"InvalidInterval"}
  /\ last.start_time = -1 /\ last.end_time # -1

\* ------------------------------------------------------------- C11
\* C11: an update, successful or failed, leaves the resource, the owning user
\* and the status of every booking as they were before the call.
C11_UpdateFrame ==
  [][Handled("update") =>
       /\ DOMAIN bookings' = DOMAIN bookings
       /\ \A id \in DOMAIN bookings :
            /\ bookings'[id].resource = bookings[id].resource
            /\ bookings'[id].user = bookings[id].user
            /\ bookings'[id].status = bookings[id].status]_vars

\* A staff user's update of another user's Confirmed booking went through.
C11_Witness ==
  /\ last.op = "update" /\ last.ok
  /\ last.actor = "admin"
  /\ bookings[last.id].user = "alice"
  /\ bookings[last.id].status = "CONFIRMED"

\* ------------------------------------------------------------- C12
\* The error of the first broken rule of the create just handled, in the
\* order InvalidInterval, PastDate, NotFound / ResourceUnavailable, SlotConflict.
C12_FirstAsStated ==
  IF last'.end_time <= last'.start_time THEN {"InvalidInterval"}
  ELSE IF last'.booking_date < today THEN {"PastDate"}
  ELSE IF last'.resource \notin Resources THEN {"NotFound"}
  ELSE IF ~resources[last'.resource].is_available THEN {"ResourceUnavailable"}
  ELSE IF Blocked(last'.resource, last'.booking_date, Requested, 0) THEN {"SlotConflict"}
  ELSE {}

\* C12 as stated: a create returns the error of the first rule it breaks in
\* the order InvalidInterval, PastDate, NotFound / ResourceUnavailable,
\* SlotConflict.
C12_Stated == [][Handled("create") => last'.err = C12_FirstAsStated]_vars

\* The errors of the field rules the create just handled breaks: an unknown
\* resource and a past date.
C12_FieldRules ==
  (IF last'.resource \notin Resources THEN {"NotFound"} ELSE {})
  \cup (IF last'.booking_date < today THEN {"PastDate"} ELSE {})

\* C12 amended: a create returns NotFound and PastDate first (both when both
\* apply), then InvalidInterval, then ResourceUnavailable, then SlotConflict.
C12_CodeOrder ==
  [][Handled("create") =>
       last'.err =
         IF C12_FieldRules # {} THEN C12_FieldRules
         ELSE IF last'.end_time <= last'.start_time THEN {"InvalidInterval"}
         ELSE IF ~resources[last'.resource].is_available THEN {"ResourceUnavailable"}
         ELSE IF Blocked(last'.resource, last'.booking_date, Requested, 0) THEN {"SlotConflict"}
         ELSE {}]_vars

\* A create with end <= start on a past date was refused as PastDate.
C12_Witness ==
  /\ last.op = "create" /\ last.err = {"PastDate"}
  /\ last.end_time <= last.start_time

\* ------------------------------------------------------------- C13
\* C13: a successful create adds exactly one booking and changes no other;
\* the new booking is Pending, is owned by the requesting user and has the
\* requested resource, date, start and end, whatever status and user the
\* request body names.
C13_CreateStores ==
  [][(Handled("create") /\ last'.ok) =>
       /\ Len(bookings') = Len(bookings) + 1
       /\ \A i \in DOMAIN bookings : bookings'[i] = bookings[i]
       /\ LET b == bookings'[Len(bookings')] IN
          /\ b.status = "PENDING"
          /\ b.user = last'.actor
          /\ b.resource = last'.resource
          /\ b.booking_date = last'.booking_date
          /\ b.start_time = last'.start_time
          /\ b.end_time = last'.end_time]_vars

\* A create whose body named the status CONFIRMED and another user as owner
\* succeeded.
C13_Witness ==
  /\ last.op = "create" /\ last.ok
  /\ last.status = "CONFIRMED"
  /\ last.user # OmittedText /\ last.user # last.actor

\* ------------------------------------------------------------- C14
\* The create just handled asks for exactly the resource, date and interval
\* of a stored Cancelled or Completed booking.
C14_RetakesTerminalSlot ==
  \E a \in DOMAIN bookings :
    /\ IsTerminal(bookings[a])
    /\ bookings[a].resource = last'.resource
    /\ bookings[a].booking_date = last'.booking_date
    /\ bookings[a].start_time = last'.start_time
    /\ bookings[a].end_time = last'.end_time

\* C14: a create or update fails with SlotConflict only when a Pending or
\* Confirmed booking (other than the updated one) overlaps it, so a create for
\* exactly the slot of a Cancelled or Completed booking that no Pending or
\* Confirmed booking overlaps is never refused with SlotConflict and succeeds
\* when its date is not past and its resource is available.
C14_TerminalNeverBlocks ==
  [][/\ (Handled("create") /\ "SlotConflict" \in last'.err)
          => Blocked(last'.resource, last'.booking_date, Requested, 0)
     /\ (Handled("update") /\ MaySee(last'.actor, last'.id) /\ "SlotConflict" \in last'.err)
          => Blocked(bookings[last'.id].resource, Resulting(last'.id).booking_date,
                     Resulting(last'.id), last'.id)
     /\ (/\ Handled("create")
         /\ C14_RetakesTerminalSlot
         /\ ~Blocked(last'.resource, last'.booking_date, Requested, 0))
          => /\ "SlotConflict" \notin last'.err
             /\ (last'.booking_date >= today /\ resources[last'.resource].is_available)
                  => last'.ok]_vars

\* A create took exactly the slot of a Cancelled booking.
C14_Witness ==
  /\ last.op = "create" /\ last.ok
  /\ \E a \in DOMAIN bookings :
       /\ a # last.id
       /\ bookings[a].status = "CANCELLED"
       /\ bookings[a].resource = last.resource
       /\ bookings[a].booking_date = last.booking_date
       /\ bookings[a].start_time = last.start_time
       /\ bookings[a].end_time = last.end_time

\* ------------------------------------------------------------- C15
\* C15: in every reachable state every stored booking has end_time > start_time.
C15_ValidIntervals ==
  \A i \in DOMAIN bookings : bookings[i].end_time > bookings[i].start_time

\* A partial update that supplied only a new start time went through and
\* changed the stored start.
C15_Witness ==
  /\ last.op = "update" /\ last.ok
  /\ last.start_time # -1 /\ last.end_time = -1
  /\ bookings[last.id].start_time = last.start_time
  /\ bookings[last.id].end_time - bookings[last.id].start_time = 1

\* ------------------------------------------------------------- C16
\* C16 as stated: a create naming a resource whose is_available is false
\* fails with ResourceUnavailable and stores nothing, whatever its date and
\* interval.
C16_Stated ==
  [][(/\ Handled("create")
      /\ last'.resource \in Resources
      /\ ~resources[last'.resource].is_available)
     => (~last'.ok /\ last'.err = {"ResourceUnavailable"} /\ bookings' = bookings)]_vars

\* C16 amended: such a create fails and stores nothing in any case; its error
\* is ResourceUnavailable when the date is not past and end > start, whether
\* the slot is free or taken.
C16_UnavailableRejected ==
  [][(/\ Handled("create")
      /\ last'.resource \in Resources
      /\ ~resources[last'.resource].is_available)
     => /\ ~last'.ok
        /\ bookings' = bookings
        /\ (last'.booking_date >= today /\ last'.end_time > last'.start_time)
             => last'.err = {"ResourceUnavailable"}]_vars

\* A create for a free slot of an unavailable resource was refused as
\* ResourceUnavailable.
C16_Witness ==
  /\ last.op = "create" /\ last.err = {"ResourceUnavailable"}
  /\ \A i \in DOMAIN bookings :
       ~(/\ bookings[i].resource = last.resource
         /\ bookings[i].booking_date = last.booking_date
         /\ IsActive(bookings[i]))

\* ------------------------------------------------------------- C17
\* C17: when the mail call of a create raises, the create reports success and
\* the new booking is stored as Pending; when the mail call of a cancel
\* raises, the cancel reports success and the booking is stored as Cancelled.
C17_MailFailureSwallowed ==
  [][/\ (Handled("create") /\ last'.mail = "failed")
          => /\ last'.ok
             /\ Len(bookings') = Len(bookings) + 1
             /\ bookings'[last'.id].status = "PENDING"
     /\ (Handled("cancel") /\ last'.mail = "failed")
          => /\ last'.ok
             /\ bookings'[last'.id].status = "CANCELLED"
     /\ (last.mail = "pending" /\ last'.mail = "failed")
          => /\ last'.ok
             /\ bookings' = bookings]_vars

\* The mail call of a cancel raised.
C17_Witness ==
  /\ last.op = "cancel" /\ last.mail = "failed"
  /\ bookings[last.id].status = "CANCELLED"

\* ------------------------------------------------------------- C18
\* C18: every create and every cancel that has done its work returns its
\* response, also when its mail call never comes back.
C18_Returns == (last.op \in {"create", "cancel"}) ~> (last.op = "none")

\* ------------------------------------------------------------- C19
\* The time of day an 'HH:MM' text of a response denotes.
ParseHM(m) == m * TicksPerMinute

\* The slots of a booked_slots list, read back as intervals of times of day.
SlotsRead(q) ==
  {[start_time |-> ParseHM(q[k][1]), end_time |-> ParseHM(q[k][2])] : k \in DOMAIN q}

\* The Pending and Confirmed bookings, before the step, on resource r and date d.
ActiveOn(r, d) ==
  {i \in DOMAIN bookings :
     /\ bookings[i].resource = r
     /\ bookings[i].booking_date = d
     /\ IsActive(bookings[i])}

\* C19: the busy-slot list of a successful availability query has one entry
\* for each Pending or Confirmed booking on the resource and date asked for,
\* its entries are exactly the (start, end) intervals of these bookings, and
\* they come in ascending order of start.
C19_BusySlotsExact ==
  [][(Handled("availability") /\ last'.ok) =>
       LET q == last'.booked_slots
           A == ActiveOn(last'.resource, last'.booking_date) IN
       /\ Len(q) = Cardinality(A)
       /\ SlotsRead(q) =
            {[start_time |-> bookings[i].start_time, end_time |-> bookings[i].end_time] : i \in A}
       /\ \A j \in DOMAIN q : \A k \in DOMAIN q : j < k => q[j][1] <= q[k][1]]_vars

\* ------------------------------------------------------------- C20
\* C20: a create for an available resource, a date not before today and an
\* interval with end > start succeeds exactly when the interval overlaps none
\* of the busy slots an availability query for that resource and date
\* returns in the state the create is handled in.
C20_AgreesWithCreate ==
  [][(/\ Handled("create")
      /\ last'.resource \in Resources
      /\ resources[last'.resource].is_available
      /\ last'.booking_date >= today
      /\ last'.end_time > last'.start_time)
     => \A q \in booked_slots(last'.resource, last'.booking_date) :
          last'.ok <=> (\A slot \in SlotsRead(q) : ~RefOverlaps(Requested, slot))]_vars

\* ------------------------------------------------------------- C21
\* C21: an availability query, successful or failed with NotFound or
\* InvalidDate, changes no booking and no resource and sends no mail.
C21_QueryReadOnly ==
  [][Handled("availability") =>
       /\ bookings' = bookings
       /\ resources' = resources
       /\ last'.mail = "none"]_vars

\* A query with an unparsable date failed while a booking was stored.
C21_Witness ==
  /\ last.op = "availability" /\ last.err = {"InvalidDate"}
  /\ Len(bookings) >= 1

\* ------------------------------------------------------------- C22
\* The actor of the step just taken is not a staff user.
C22_Unprivileged == last.op = "none" /\ last'.op # "none" /\ last'.actor # "admin"

\* C22: a request of an actor who is not staff changes no booking owned by
\* another user; its update, cancel or retrieve of such a booking fails, its
\* list shows only the actor's own bookings, and its setStatus fails and
\* changes no booking at all.
C22_OwnerOrStaffOnly ==
  [][C22_Unprivileged =>
       /\ \A id \in DOMAIN bookings :
            bookings[id].user # last'.actor => bookings'[id] = bookings[id]
       /\ (/\ last'.op \in {"update", "cancel", "retrieve"}
           /\ last'.id \in DOMAIN bookings
           /\ bookings[last'.id].user # last'.actor)
            => (~last'.ok /\ last'.rows = {} /\ bookings' = bookings)
       /\ last'.op = "list" => \A id \in last'.rows : bookings[id].user = last'.actor
       /\ last'.op = "setStatus" => (~last'.ok /\ bookings' = bookings)]_vars

\* A user who is not staff asked to cancel an active booking of another user
\* and was refused.
C22_Witness ==
  /\ last.op = "cancel" /\ ~last.ok
  /\ last.actor = "alice"
  /\ last.id \in DOMAIN bookings
  /\ bookings[last.id].user # "alice"
  /\ IsActive(bookings[last.id])

\* ------------------------------------------------------------- C23
\* Booking i, before the step, is Pending or Confirmed, is on resource r and
\* date d, holds the interval slot and overlaps the interval iv.
C23_Conflicting(i, r, d, iv, slot) ==
  /\ IsActive(bookings[i])
  /\ bookings[i].resource = r
  /\ bookings[i].booking_date = d
  /\ <<bookings[i].start_time, bookings[i].end_time>> = slot
  /\ RefOverlaps(iv, bookings[i])

\* C23: the interval carried by the SlotConflict of a create or an update is
\* the (start, end) of a stored Pending or Confirmed booking on the
\* candidate's resource and date that overlaps the candidate and is not the
\* booking being updated.
C23_CarriedIsConflicting ==
  [][/\ (Handled("create") /\ "SlotConflict" \in last'.err)
          => \E i \in DOMAIN bookings :
               C23_Conflicting(i, last'.resource, last'.booking_date, Requested, last'.conflict)
     /\ (Handled("update") /\ "SlotConflict" \in last'.err)
          => \E i \in DOMAIN bookings \ {last'.id} :
               C23_Conflicting(i, bookings[last'.id].resource,
                               Resulting(last'.id).booking_date, Resulting(last'.id),
                               last'.conflict)]_vars

\* An update was refused with SlotConflict while the updated booking itself
\* held another interval than the one carried.
C23_Witness ==
  /\ last.op = "update" /\ last.err = {"SlotConflict"}
  /\ last.conflict # <<bookings[last.id].start_time, bookings[last.id].end_time>>

\* ------------------------------------------------------------- C24
\* The slot handler p asked for, after the step, as a row.
C24_Asked(p) == [start_time |-> procs'[p].start_time, end_time |-> procs'[p].end_time]

\* C24: the outcome of every create, under any interleaving with another
\* create, is decided by its own request and the stored bookings on its own
\* resource and date: it is refused with SlotConflict only when one of those
\* overlaps it, it passes validation exactly when it is valid and none does,
\* and its save adds its own row and changes no other; bookings and
\* unfinished creates on another resource or date play no part.
C24_KeysIndependent ==
  [][\A p \in Procs :
       /\ (procs[p].pc = "idle" /\ procs'[p].pc # "idle")
            => /\ "SlotConflict" \in procs'[p].err
                    => Blocked(procs'[p].resource, procs'[p].booking_date, C24_Asked(p), 0)
               /\ procs'[p].pc = "validated"
                    <=> (/\ procs'[p].end_time > procs'[p].start_time
                         /\ procs'[p].booking_date >= today
                         /\ resources[procs'[p].resource].is_available
                         /\ ~Blocked(procs'[p].resource, procs'[p].booking_date,
                                     C24_Asked(p), 0))
               /\ bookings' = bookings
       /\ (procs[p].pc = "validated" /\ procs'[p].pc = "done")
            => /\ procs'[p].ok
               /\ Len(bookings') = Len(bookings) + 1
               /\ \A i \in DOMAIN bookings : bookings'[i] = bookings[i]
               /\ bookings'[Len(bookings')].resource = procs[p].resource
               /\ bookings'[Len(bookings')].booking_date = procs[p].booking_date
               /\ bookings'[Len(bookings')].start_time = procs[p].start_time
               /\ bookings'[Len(bookings')].end_time = procs[p].end_time]_vars

\* Two creates for the same date and time of day on different resources, run
\* by the two handlers, were both saved.
C24_Witness ==
  /\ Len(bookings) = 2
  /\ procs["p1"].pc = "done" /\ procs["p1"].ok
  /\ procs["p2"].pc = "done" /\ procs["p2"].ok
  /\ procs["p1"].start_time = procs["p2"].start_time
  /\ procs["p1"].end_time = procs["p2"].end_time
  /\ procs["p1"].resource # procs["p2"].resource
  /\ procs["p1"].booking_date = procs["p2"].booking_date

\* ------------------------------------------------------------- C25
RECURSIVE GCD(_, _)
GCD(a, b) == IF b = 0 THEN a ELSE GCD(b, a % b)

\* The quotient q in lowest terms.
Lowest(q) ==
  IF q.num = 0 THEN [num |-> 0, den |-> 1]
  ELSE [num |-> q.num \div GCD(q.num, q.den), den |-> q.den \div GCD(q.num, q.den)]

\* The booking read by the step just taken, and the price per hour of its
\* resource.
C25_Read == bookings[last'.id]

C25_Price == resources[C25_Read.resource].price_per_hour

\* C25: a read of a booking reports a duration d in hours with 60 * d = the
\* minutes between the stored start and end, and a price equal to d times the
\* resource's price per hour when it has one and 0 when it has none, both from
\* the booking and resource as they are stored at the read; 09:00 to 10:30 at
\* 20.00 an hour gives 1.5 hours and 30.00; no booking stores either value.
C25_DurationAndPrice ==
  [][(Handled("retrieve") /\ last'.ok) =>
       /\ Lowest([num |-> 60 * last'.duration_hours.num, den |-> last'.duration_hours.den])
            = Lowest([num |-> C25_Read.end_time - C25_Read.start_time, den |-> TicksPerMinute])
       /\ C25_Price # NoPrice
            => Lowest(last'.total_price)
                 = Lowest([num |-> C25_Price * last'.duration_hours.num,
                           den |-> last'.duration_hours.den])
       /\ C25_Price = NoPrice => last'.total_price.num = 0
       /\ (/\ C25_Read.start_time = 9 * 60 * TicksPerMinute
           /\ C25_Read.end_time = (10 * 60 + 30) * TicksPerMinute
           /\ C25_Price = 2000)
            => /\ Lowest(last'.duration_hours) = [num |-> 3, den |-> 2]
               /\ Lowest(last'.total_price) = [num |-> 3000, den |-> 1]
       /\ \A i \in DOMAIN bookings' :
            DOMAIN bookings'[i] = {"user", "resource", "booking_date", "start_time", "end_time",
                                   "status", "notes", "admin_notes"}]_vars

\* The booking from 09:00 to 10:30 on a resource at 20.00 an hour was read as
\* 1.5 hours and 30.00.
C25_Witness ==
  /\ last.op = "retrieve" /\ last.ok
  /\ bookings[last.id].start_time = 9 * 60 * TicksPerMinute
  /\ bookings[last.id].end_time = (10 * 60 + 30) * TicksPerMinute
  /\ resources[bookings[last.id].resource].price_per_hour = 2000
  /\ Lowest(last.duration_hours) = [num |-> 3, den |-> 2]
  /\ Lowest(last.total_price) = [num |-> 3000, den |-> 1]

\* ------------------------------------------------------------- C26
\* C26: from any store without a double booking, rows in every status
\* included, no sequence of atomically handled create, update and cancel
\* requests leads to two Pending/Confirmed bookings on one resource and date
\* that overlap.
C26_NoOverlapWithoutSetStatus == NoDoubleBookingIn(bookings)

\* An update moved a Completed booking to a date on which a Confirmed
\* booking ends where the moved one starts.
C26_Witness ==
  /\ last.op = "update" /\ last.ok
  /\ last.booking_date # -1
  /\ bookings[last.id].status = "COMPLETED"
  /\ \E i \in DOMAIN bookings :
       /\ i # last.id
       /\ bookings[i].status = "CONFIRMED"
       /\ bookings[i].booking_date = last.booking_date
       /\ bookings[i].end_time = bookings[last.id].start_time

\* ------------------------------------------------------------- C27
\* C27: once a cancel of a booking has reported success and an update of the
\* same booking, interleaved with it in any way, has completed too, the
\* stored status of the booking is Cancelled.
C27_CancelNotUndone ==
  \A p \in Procs : \A q \in Procs :
    (/\ procs[p].pc = "done" /\ procs[p].op = "cancel" /\ procs[p].ok
     /\ procs[q].pc = "done" /\ procs[q].op = "update"
     /\ procs[q].id = procs[p].id)
    => bookings[procs[p].id].status = "CANCELLED"

\* ------------------------------------------------------------- C28
\* The errors a create, update, cancel or setStatus can answer with.
C28_Errors ==
  {"InvalidInterval", "PastDate", "NotFound", "ResourceUnavailable", "SlotConflict",
   "IllegalTransition", "Unauthorized"}

\* A create, update, cancel or setStatus has just answered with an error.
C28_Failed ==
  /\ last.op = "none"
  /\ last'.op \in {"create", "update", "cancel", "setStatus"}
  /\ ~last'.ok

\* C28: whenever create, update, cancel or setStatus returns an error, the
\* set of stored bookings and every field of every booking are the same as
\* before the call, the error is one of the listed ones, and no BookingCreated
\* or BookingCancelled notification is emitted.
C28_FailureChangesNothing ==
  [][C28_Failed =>
       /\ bookings' = bookings
       /\ last'.mail = "none"
       /\ last'.err # {} /\ last'.err \subseteq C28_Errors]_vars

\* A cancel that passed the status guard was refused by the model validation
\* (the booking's date is in the past) while bookings are stored.
C28_Witness ==
  /\ last.op = "cancel" /\ ~last.ok
  /\ "PastDate" \in last.err
  /\ last.id \in DOMAIN bookings
  /\ bookings[last.id].status = "PENDING"

\* ------------------------------------------------------------- C29
\* C29: the BookingCreated notification of a create and the BookingCancelled
\* notification of a cancel are addressed to the user who owns the booking,
\* also when the cancel is performed by a privileged actor who is not the
\* owner.
C29_AddressedToOwner ==
  [][((Handled("create") \/ Handled("cancel")) /\ last'.ok /\ last'.mail # "none")
       => last'.mailTo = bookings'[last'.id].user]_vars
====
